---- MODULE Spec2Model ----
(***************************************************************************)
(* Outbound delivery of node-mta-send: the three delivery entry points of  *)
(* the repository (sendOutgoingEmail, sendEmail, sendMessage), their MX    *)
(* resolvers (getMXs, implicitMX) and the per-host attempt wrapped by      *)
(* wrapErrorEvent.  One behaviour is one call of one entry point.  Every   *)
(* action is the code that runs between two suspension points (await) of   *)
(* that call, or one callback of the transport.                            *)
(*                                                                         *)
(* Text (domain names, host names) is a sequence of one-character strings. *)
(* A JavaScript object is a record; an absent property is an absent field. *)
(***************************************************************************)
EXTENDS Integers, Sequences, FiniteSets, TLC

VARIABLES
    fn,         \* the entry point that was called
    to_parsed,  \* smtpAddressParser.parse(rcptTo)
    pc,         \* where the call is suspended: start, mx, addr, host, attempt, done
    dnsLog,     \* every DNS query issued so far, in order
    mxReply,    \* what dns.promises.resolveMx answered (NoReply before it did)
    addrReply,  \* what resolve4 and resolve6 answer for the domain, drawn when resolveMx
                \* finds no MX record (<<>> otherwise): the race reads it when it runs
    implicitAt, \* where implicitMX / the address race was entered: none, try, catch
    mxRecords,  \* the value getMXs returned (the resolved route)
    idx,        \* index in mxRecords of the host of the current loop iteration
    conns,      \* the SMTPConnection objects constructed so far, in order
    outcome,    \* how the call ended: pending, returned, thrown
    input,      \* the text given to a function of the address classifier
    called,     \* the function of the address classifier that was called (none before)
    result      \* what that function returned or threw

deliveryVars == <<fn, to_parsed, pc, dnsLog, mxReply, addrReply, implicitAt, mxRecords, idx, conns, outcome>>
classifierVars == <<input, called, result>>
vars == <<deliveryVars, classifierVars>>

----------------------------------------------------------------------------
(* Bounds of the model. *)

\* longest answer of an MX lookup
MaxMx == 2
\* largest MX priority
MaxPrio == 1
\* largest number written as a group of a dotted quad
MaxOctet == 256

----------------------------------------------------------------------------
(* Text. *)

\* s.split(sep)
RECURSIVE Split(_, _)
Split(s, sep) ==
    IF \A i \in 1..Len(s) : s[i] # sep
    THEN <<s>>
    ELSE LET k == CHOOSE i \in 1..Len(s) : s[i] = sep /\ \A j \in 1..(i - 1) : s[j] # sep
         IN  <<SubSeq(s, 1, k - 1)>> \o Split(SubSeq(s, k + 1, Len(s)), sep)

Digits == {"0", "1", "2", "3", "4", "5", "6", "7", "8", "9"}

DigitVal(c) ==
    CASE c = "0" -> 0 [] c = "1" -> 1 [] c = "2" -> 2 [] c = "3" -> 3 [] c = "4" -> 4
      [] c = "5" -> 5 [] c = "6" -> 6 [] c = "7" -> 7 [] c = "8" -> 8 [] c = "9" -> 9

RECURSIVE DecVal(_)
DecVal(s) == IF s = <<>> THEN 0 ELSE 10 * DecVal(SubSeq(s, 1, Len(s) - 1)) + DigitVal(s[Len(s)])

\* isIp.v4(s): four dot-separated decimal groups of one to three digits, each at most 255
IsIpV4(s) ==
    LET parts == Split(s, ".")
    IN  /\ Len(parts) = 4
        /\ \A i \in 1..4 :
              /\ Len(parts[i]) \in 1..3
              /\ \A j \in 1..Len(parts[i]) : parts[i][j] \in Digits
              /\ (Len(parts[i]) = 1 \/ parts[i][1] # "0")
              /\ DecVal(parts[i]) <= 255

HexDigits == Digits \cup {"a", "b", "c", "d", "e", "f", "A", "B", "C", "D", "E", "F"}

\* isIp.v6(s), without embedded IPv4 and zone ids: eight groups of one to four hex
\* digits, or fewer groups with exactly one "::" standing for the missing ones
IsIpV6(s) ==
    LET parts  == Split(s, ":")
        n      == Len(parts)
        empty  == {i \in 1..n : parts[i] = <<>>}
        inner  == {i \in empty : 1 < i /\ i < n}
        groups == n - Cardinality(empty)
    IN  /\ \A i \in 1..n : Len(parts[i]) <= 4 /\ \A j \in 1..Len(parts[i]) : parts[i][j] \in HexDigits
        /\ \/ empty = {} /\ n = 8
           \/ /\ Cardinality(inner) = 1
              /\ groups <= 7
              /\ 1 \in empty => 2 \in empty
              /\ n \in empty => (n - 1) \in empty

\* isIp(s)
IsIp(s) == IsIpV4(s) \/ IsIpV6(s)

\* c.toLowerCase() for one character
LowerChar(c) ==
    CASE c = "A" -> "a" [] c = "B" -> "b" [] c = "C" -> "c" [] c = "D" -> "d"
      [] c = "E" -> "e" [] c = "F" -> "f" [] c = "I" -> "i" [] c = "P" -> "p"
      [] c = "V" -> "v" [] c = "X" -> "x" [] OTHER -> c

\* s.toLowerCase()
toLowerCase(s) == [i \in 1..Len(s) |-> LowerChar(s[i])]

\* s.startsWith(prefix)
startsWith(s, prefix) == Len(s) >= Len(prefix) /\ SubSeq(s, 1, Len(prefix)) = prefix

\* the position of the first "]" of s at or after position p (0 when there is none)
FirstClose(s, p) ==
    LET at == {q \in p..Len(s) : s[q] = "]"}
    IN  IF at = {} THEN 0 ELSE CHOOSE q \in at : \A r \in at : q <= r

\* the text "ipv6:"
Ipv6Tag == <<"i", "p", "v", "6", ":">>

\* literal.match(/\[IPv6:([^\]]*)\]/i): the leftmost "[" that the tag follows in any
\* case and a "]" closes; the group is the text between the tag and the first "]".
\* <<>> is no match, <<group>> a match
MatchTaggedLiteral(s) ==
    LET starts == {p \in 1..Len(s) :
                     /\ s[p] = "["
                     /\ p + 5 <= Len(s)
                     /\ toLowerCase(SubSeq(s, p + 1, p + 5)) = Ipv6Tag
                     /\ FirstClose(s, p + 6) # 0}
    IN  IF starts = {} THEN <<>>
        ELSE LET p == CHOOSE x \in starts : \A y \in starts : x <= y
             IN  <<SubSeq(s, p + 6, FirstClose(s, p + 6) - 1)>>

\* literal.match(/\[([^\]]*)\]/): the leftmost "[" that a "]" closes; the group is
\* the text between it and the first "]"
MatchLiteral(s) ==
    LET starts == {p \in 1..Len(s) : s[p] = "[" /\ FirstClose(s, p + 1) # 0}
    IN  IF starts = {} THEN <<>>
        ELSE LET p == CHOOSE x \in starts : \A y \in starts : x <= y
             IN  <<SubSeq(s, p + 1, FirstClose(s, p + 1) - 1)>>

\* addr.match(ipv4re) for a text isIp.v4 accepts: the four groups of digits
\* (<<>> is no match)
MatchIpv4(s) ==
    LET parts == Split(s, ".")
    IN  IF /\ Len(parts) = 4
           /\ \A i \in 1..4 : Len(parts[i]) \in 1..3 /\ \A j \in 1..Len(parts[i]) : parts[i][j] \in Digits
        THEN parts
        ELSE <<>>

----------------------------------------------------------------------------
(* Names and DNS answers the model draws its inputs from. *)

\* a fully qualified recipient domain, "a.b"
FqdnDomain == <<"a", ".", "b">>
\* a recipient domain of one label, "a"
BareDomain == <<"a">>
\* an address literal as the recipient's domain part, "[9.9.9.9]"
Literal == <<"[", "9", ".", "9", ".", "9", ".", "9", "]">>

\* the exchanges of MX records: "" (as in a null MX), "m.b", and the numeric "9.9.9.9"
EmptyName == <<>>
MxHost == <<"m", ".", "b">>
IpHost == <<"9", ".", "9", ".", "9", ".", "9">>
Exchanges == {EmptyName, MxHost, IpHost}

MXRecords == [priority : 0..MaxPrio, exchange : Exchanges]

\* what smtpAddressParser.parse gives for the recipient
Recipients ==
    {[domainPart |-> [DomainName |-> d]] : d \in {FqdnDomain, BareDomain}}
        \cup {[domainPart |-> [AddressLiteral |-> Literal]]}

\* the code property of a failed DNS query
DnsCodes == {"ENODATA", "ENOTFOUND", "ETIMEOUT", "ESERVFAIL"}

\* the Error a failed dns.promises query rejects with
DnsError(code) == [message |-> "dns query failed", code |-> code]

\* the same Error under a Node release that also sets errno to the code (releases
\* before 13 do; later ones leave errno undefined for resolver errors)
DnsErrorWithErrno(code) == [message |-> "dns query failed", code |-> code, errno |-> code]

Fulfilled(v) == [ok |-> TRUE, value |-> v]
Rejected(e) == [ok |-> FALSE, error |-> e]

NoReply == [ok |-> FALSE, error |-> [message |-> "no reply yet"]]

\* the answers of dns.promises.resolveMx
MxAnswers == UNION {[1..n -> MXRecords] : n \in 0..MaxMx}
MxReplies ==
    {Fulfilled(a) : a \in MxAnswers}
        \cup {Rejected(DnsError(c)) : c \in DnsCodes}
        \cup {Rejected(DnsErrorWithErrno(c)) : c \in DnsCodes}

\* the answers of dns.promises.resolve4 and resolve6 (the addresses themselves are not read)
AddrReplies == {Fulfilled(<<IpHost>>)} \cup {Rejected(DnsError(c)) : c \in DnsCodes}

\* the MX lookup found no record: an empty answer, or "no data" / "no such domain"
ZeroMx(reply) ==
    IF reply.ok THEN Len(reply.value) = 0
    ELSE "code" \in DOMAIN reply.error /\ reply.error.code \in {"ENODATA", "ENOTFOUND"}

----------------------------------------------------------------------------
(* Error objects. *)

\* value instanceof Error with a code of "no data" or "no such domain"
NoData(e) == "code" \in DOMAIN e /\ e.code \in {"ENODATA", "ENOTFOUND"}

\* e.errno === "ETIMEOUT"
ErrnoIsTimeout(e) == "errno" \in DOMAIN e /\ e.errno = "ETIMEOUT"

\* new Error(message) given a response and the responseCode 500
ResponseError(message, response) ==
    [message |-> message, response |-> response, responseCode |-> 500]

AddressLiteralError ==
    IF fn = "sendMessage"
    THEN ResponseError("Domain is an address literal", "Domain is an address literal")
    ELSE [message |-> "Domain is an address literal."]
NotFqdnError == ResponseError("Domain not fully qualified", "Domain not fully qualified")
NoMxError == ResponseError("No MX (or A or AAAA) record", "No MX or A or AAAA")
NullMxError == ResponseError("Null MX record", "Null MX")
AttemptFailedError == ResponseError("Delivery attempt failed", "Delivery attempt failed")
CouldNotDeliverError == [message |-> "Could not deliver message."]

\* the TypeError of dns.promises.resolveMx(undefined)
InvalidArgError == [message |-> "The name argument must be of type string", code |-> "ERR_INVALID_ARG_TYPE"]
\* the TypeError of reading length of undefined
UndefinedLengthError == [message |-> "Cannot read properties of undefined (reading 'length')"]

\* the AggregateError Promise.any rejects with: it has errors and no code
AggregateError(errors) == [message |-> "All promises were rejected", errors |-> errors]

\* Promise.any([resolve4, resolve6])
PromiseAny(r4, r6) ==
    IF r4.ok \/ r6.ok
    THEN Fulfilled(IF r4.ok THEN r4.value ELSE r6.value)
    ELSE Rejected(AggregateError(<<r4.error, r6.error>>))

----------------------------------------------------------------------------
(* The resolver.  A step of getMXs ends in one of: a returned route, a     *)
(* return without a value, a thrown error, or the await of the address     *)
(* race (entered from the try block or from the catch block).              *)

Return(v) == [kind |-> "return", value |-> v]
ReturnUndefined == [kind |-> "undefined"]
Throw(e) == [kind |-> "throw", error |-> e]
AwaitAddr(at) == [kind |-> "await", at |-> at]
NotResolved == [kind |-> "none"]

\* the values Math.random gives the sort (only their order is read)
RandomValues(n) == [1..n -> 1..MaxMx]

\* lodash compares criteria [priority, random] and then the index
SortsBefore(mx, rnd, i, j) ==
    \/ mx[i].priority < mx[j].priority
    \/ /\ mx[i].priority = mx[j].priority
       /\ \/ rnd[i] < rnd[j]
          \/ rnd[i] = rnd[j] /\ i < j

\* sortBy as it would be with the priority left out of the criteria
sortBy_randomOnly(mx, rnd) ==
    LET n == Len(mx)
        before(i, j) == rnd[i] < rnd[j] \/ (rnd[i] = rnd[j] /\ i < j)
        rank(i) == 1 + Cardinality({j \in 1..n : before(j, i)})
    IN  [p \in 1..n |-> mx[CHOOSE i \in 1..n : rank(i) = p]]

\* _.sortBy(mx, ["priority", Math.random]) when Math.random gives rnd[i] for mx[i]
sortBy(mx, rnd) ==
    LET n == Len(mx)
        rank(i) == 1 + Cardinality({j \in 1..n : SortsBefore(mx, rnd, j, i)})
    IN  [p \in 1..n |-> mx[CHOOSE i \in 1..n : rank(i) = p]]

\* [{ priority: 0, exchange: domain }]
ImplicitRoute(domain) == <<[priority |-> 0, exchange |-> domain]>>

\* src/src/main.ts getMXs, up to the answer of resolveMx
Main_getMXs(reply, rnd) ==
    IF reply.ok THEN Return(sortBy(reply.value, rnd))
    ELSE IF NoData(reply.error) THEN AwaitAddr("catch")
    ELSE IF ErrnoIsTimeout(reply.error) THEN Return(<<>>)
    ELSE Throw(reply.error)

\* src/src/main.ts getMXs, after the address race
Main_getMXs_addr(domain, any) ==
    IF any.ok THEN Return(ImplicitRoute(domain)) ELSE Return(<<>>)

\* part_000 getMXs, up to the answer of resolveMx
P0_getMXs(reply, rnd) ==
    IF reply.ok THEN Return(sortBy(reply.value, rnd))
    ELSE IF NoData(reply.error) THEN AwaitAddr("catch")
    ELSE Throw(reply.error)

\* part_000 getMXs, after the address race: an Error that is not "no data" falls
\* out of the catch block, and the function returns no value
P0_getMXs_addr(domain, any) ==
    IF any.ok THEN Return(ImplicitRoute(domain))
    ELSE IF NoData(any.error) THEN Return(<<>>)
    ELSE ReturnUndefined

\* the catch block as it would be if every error led to the address lookups
P1_getMXs_catch_any(err) == AwaitAddr("catch")

\* part_001 getMXs, the catch block
P1_getMXs_catch(err) ==
    IF NoData(err) THEN AwaitAddr("catch") ELSE Throw(err)

\* part_001 getMXs, up to the answer of resolveMx
P1_getMXs(reply, rnd) ==
    IF reply.ok
    THEN IF Len(reply.value) = 0 THEN AwaitAddr("try") ELSE Return(sortBy(reply.value, rnd))
    ELSE P1_getMXs_catch(reply.error)

\* part_001 implicitMX, after the address race
implicitMX(domain, any) ==
    IF any.ok THEN Return(ImplicitRoute(domain))
    ELSE IF NoData(any.error) THEN Return(<<>>)
    ELSE Throw(any.error)

\* part_001 getMXs, after implicitMX: what implicitMX throws inside the try block
\* is caught by the catch block of getMXs
P1_getMXs_addr(domain, any, at) ==
    LET r == implicitMX(domain, any)
    IN  IF r.kind = "throw" /\ at = "try" THEN P1_getMXs_catch(r.error) ELSE r

\* getMXs of the entry point f, up to the answer of resolveMx
getMXs(f, reply, rnd) ==
    CASE f = "sendOutgoingEmail" -> Main_getMXs(reply, rnd)
      [] f = "sendEmail" -> P0_getMXs(reply, rnd)
      [] f = "sendMessage" -> P1_getMXs(reply, rnd)

\* getMXs of the entry point f, after the address race
getMXs_addr(f, domain, any, at) ==
    CASE f = "sendOutgoingEmail" -> Main_getMXs_addr(domain, any)
      [] f = "sendEmail" -> P0_getMXs_addr(domain, any)
      [] f = "sendMessage" -> P1_getMXs_addr(domain, any, at)

----------------------------------------------------------------------------
(* The address classifier. *)

NotAnAddressLiteralError == [message |-> "is not an address literal"]
NotValidIpv4Error == [message |-> "not a valid IPv4 address"]
NotAnIpAddressError == [message |-> "is not an IP address"]

\* part_001 addressFromLiteral
addressFromLiteral(literal) ==
    LET m6 == MatchTaggedLiteral(literal)
        m4 == MatchLiteral(literal)
    IN  IF m6 # <<>> THEN Return(m6[1])
        ELSE IF m4 # <<>> THEN Return(m4[1])
        ELSE Throw(NotAnAddressLiteralError)

\* part_001 isLoopback
isLoopback(addr) ==
    IF IsIpV4(addr)
    THEN LET a == MatchIpv4(addr)
         IN  IF a = <<>> THEN Throw(NotValidIpv4Error) ELSE Return(a[1] = <<"1", "2", "7">>)
    ELSE IF IsIpV6(addr) THEN Return(addr = <<":", ":", "1">>)
    ELSE Throw(NotAnIpAddressError)

\* isPrivate as it would be with the range of 172 ending at 32
isPrivate_wideRange(addr) ==
    IF IsIpV4(addr)
    THEN LET a == MatchIpv4(addr)
         IN  IF a = <<>> THEN Throw(NotValidIpv4Error)
             ELSE IF a[1] = <<"1", "0">> THEN Return(TRUE)
             ELSE IF a[1] = <<"1", "7", "2">> THEN Return(16 <= DecVal(a[2]) /\ DecVal(a[2]) <= 32)
             ELSE Return(a[1] = <<"1", "9", "2">> /\ a[2] = <<"1", "6", "8">>)
    ELSE IF IsIpV6(addr) THEN Return(startsWith(toLowerCase(addr), <<"f", "d">>))
    ELSE Throw(NotAnIpAddressError)

\* part_001 isPrivate
isPrivate(addr) ==
    IF IsIpV4(addr)
    THEN LET a == MatchIpv4(addr)
         IN  IF a = <<>> THEN Throw(NotValidIpv4Error)
             ELSE IF a[1] = <<"1", "0">> THEN Return(TRUE)
             ELSE IF a[1] = <<"1", "7", "2">> THEN Return(16 <= DecVal(a[2]) /\ DecVal(a[2]) <= 31)
             ELSE Return(a[1] = <<"1", "9", "2">> /\ a[2] = <<"1", "6", "8">>)
    ELSE IF IsIpV6(addr) THEN Return(startsWith(toLowerCase(addr), <<"f", "d">>))
    ELSE Throw(NotAnIpAddressError)

(* The texts the classifier is called with. *)

DigitChar(d) ==
    CASE d = 0 -> "0" [] d = 1 -> "1" [] d = 2 -> "2" [] d = 3 -> "3" [] d = 4 -> "4"
      [] d = 5 -> "5" [] d = 6 -> "6" [] d = 7 -> "7" [] d = 8 -> "8" [] d = 9 -> "9"

\* the decimal text of a natural number
RECURSIVE DecText(_)
DecText(n) == IF n < 10 THEN <<DigitChar(n)>> ELSE DecText(n \div 10) \o <<DigitChar(n % 10)>>

\* every octet, and the numbers above 255 up to MaxOctet, which are none
Octets == 0..MaxOctet

\* the dotted quads a.b.0.1, and some texts that are no IPv4 address
Ipv4Inputs ==
    {DecText(a) \o <<".">> \o DecText(b) \o <<".", "0", ".", "1">> : a \in Octets, b \in Octets}
        \cup {<<"0", "1", "0", ".", "0", ".", "0", ".", "1">>, <<"1", "2", "7", ".", "0", ".", "0", ".", "0", "1">>, <<"1", "0", ".", "0", ".", "0">>, <<"1", "2", "7">>, <<"1", "0", ".", "0", ".", "0", ".", "1", ".", "1">>, <<>>, <<"1", "0", ".", "0", ".", "0", ".", "x">>, <<"1", "2", "7", "0", ".", "0", ".", "0", ".", "1">>}

\* texts with colons: a first group followed by the rest of an address
Ipv6Heads == {<<"f", "d", "1", "2">>, <<"F", "D", "1", "2">>, <<"f", "D", "1", "2">>, <<"F", "d", "0", "0">>, <<"f", "d">>, <<"f", "e", "8", "0">>, <<"d", "f", "1", "2">>, <<"f">>, <<"d">>, <<"0">>, <<"1">>, <<>>, <<"f", "g", "1", "2">>, <<"0", "f", "d">>}
Ipv6Tails == {<<":", ":", "1">>, <<":", "3", "4", "5", "6", ":", "7", "8", "9", "a", ":", "1", ":", ":", "1">>, <<":", "0", ":", "0", ":", "0", ":", "0", ":", "0", ":", "0", ":", "1">>, <<":", "0", ":", "0", ":", "0", ":", "0", ":", "0", ":", "0", ":", "0">>, <<":", ":">>, <<":", "1">>, <<":", ":", "0", "0", "0", "1">>, <<":", "0", ":", ":", "1">>, <<":">>}
Ipv6Inputs == {h \o t : h \in Ipv6Heads, t \in Ipv6Tails} \cup {<<"f", "d">>, <<"f", "d", "1", "2">>, <<":", ":", "1", "x">>}

\* texts around brackets: before, "[", tag, address, "]", after, each present or not
LiteralInputs ==
    {a \o b \o c \o d \o e \o f :
        a \in {<<>>, <<"x">>},
        b \in {<<>>, <<"[">>},
        c \in {<<>>, <<"I", "P", "v", "6", ":">>, <<"i", "p", "v", "6", ":">>, <<"I", "P", "v", "4", ":">>},
        d \in {<<>>, <<":", ":", "1">>, <<"1", "2", "7", ".", "0", ".", "0", ".", "1">>, <<"9">>},
        e \in {<<>>, <<"]">>},
        f \in {<<>>, <<"x">>, <<"[", "9", "]">>, <<"]">>}}

ClassifierInputs == Ipv4Inputs \cup Ipv6Inputs \cup LiteralInputs

----------------------------------------------------------------------------
(* The delivery call. *)

EntryPoints == {"sendOutgoingEmail", "sendEmail", "sendMessage"}

Pending == [status |-> "pending"]
Returned(v) == [status |-> "returned", value |-> v]
Thrown(e) == [status |-> "thrown", error |-> e]

Query(type, name) == [type |-> type, name |-> name]

\* new SMTPConnection({host, ...}): op is where the attempt's async function stands
\* (idle, resolving, unresolvable, connecting, sending, finished), promise is the state
\* of the promise of wrapErrorEvent (none, pending, resolved, rejected), quits counts
\* the calls of connection.quit(), captured says that the error listener ran while the
\* promise was pending, sent that send() completed successfully
SMTPConnection(host) ==
    [host |-> host, op |-> "idle", promise |-> "none", quits |-> 0,
     captured |-> FALSE, sent |-> FALSE]

\* wrapErrorEvent(connection, other): the error listener is registered and other()
\* runs up to its await of connect()
wrapErrorEvent(c) == [c EXCEPT !.promise = "pending", !.op = "connecting"]

\* quit as it would be if the connection were left open
quit_skipped(cs, i) == cs

\* connection.quit() on the i-th connection
quit(cs, i) == [cs EXCEPT ![i].quits = @ + 1]

\* IsNullMx as it would be if the null exchange were taken to be "."
IsNullMx_dot(route) == Len(route) = 1 /\ route[1].priority = 0 /\ route[1].exchange = <<".">>

\* mxRecords.length === 1 && mxRecords[0].priority === 0 && mxRecords[0].exchange === ""
IsNullMx(route) == Len(route) = 1 /\ route[1].priority = 0 /\ route[1].exchange = EmptyName

\* to_parsed.domainPart.DomainName.split(".").length < 2
NotFullyQualified(domain) == Len(Split(domain, ".")) < 2

\* the call ends with outcome o
Ended(o, cs, i, log) ==
    /\ pc' = "done"
    /\ outcome' = o
    /\ conns' = cs
    /\ idx' = i
    /\ dnsLog' = log

\* the head of the for loop and the body of its i-th iteration up to the first await
\* (sendOutgoingEmail first resolves a host that is not numeric); past the last
\* record, the throw after the loop
Iterate(route, cs, i, log) ==
    IF i > Len(route)
    THEN Ended(Thrown(CouldNotDeliverError), cs, i, log)
    ELSE LET host == route[i].exchange
         IN  /\ idx' = i
             /\ outcome' = Pending
             /\ IF fn = "sendOutgoingEmail" /\ ~IsIp(host)
                THEN /\ pc' = "host"
                     /\ conns' = Append(cs, [SMTPConnection(host) EXCEPT !.op = "resolving"])
                     /\ dnsLog' = Append(log, Query("A", host))
                ELSE /\ pc' = "attempt"
                     /\ conns' = Append(cs, wrapErrorEvent(SMTPConnection(host)))
                     /\ dnsLog' = log

\* OnResolved as it would be if the success path went on to the next record
OnResolved_goesOn(cs, i) ==
    Iterate(mxRecords.value, quit(cs, i), i + 1, dnsLog)

\* the await of wrapErrorEvent returns: quit and return the result
OnResolved(cs, i) ==
    Ended(Returned([host |-> cs[i].host]), quit(cs, i), i, dnsLog)

\* the catch block of the i-th iteration and what follows it: sendMessage quits and
\* throws, the others log, quit and go on with the next record
OnRejected(cs, i) ==
    IF fn = "sendMessage"
    THEN Ended(Thrown(AttemptFailedError), quit(cs, i), i, dnsLog)
    ELSE Iterate(mxRecords.value, quit(cs, i), i + 1, dnsLog)

\* the code after await getMXs(...), given what getMXs did
AfterGetMXs(r, log) ==
    /\ mxRecords' = r
    /\ CASE r.kind = "throw" -> Ended(Thrown(r.error), conns, idx, log)
         [] r.kind = "undefined" -> Ended(Thrown(UndefinedLengthError), conns, idx, log)
         [] r.kind = "return" ->
              IF Len(r.value) = 0 THEN Ended(Thrown(NoMxError), conns, idx, log)
              ELSE IF IsNullMx(r.value) THEN Ended(Thrown(NullMxError), conns, idx, log)
              ELSE Iterate(r.value, conns, 1, log)

Init ==
    /\ fn \in EntryPoints
    /\ to_parsed \in Recipients
    /\ pc = "start"
    /\ dnsLog = <<>>
    /\ mxReply = NoReply
    /\ addrReply = <<>>
    /\ implicitAt = "none"
    /\ mxRecords = NotResolved
    /\ idx = 0
    /\ conns = <<>>
    /\ outcome = Pending
    /\ input = <<>>
    /\ called = "none"
    /\ result = NotResolved

\* the entry point up to its first await: the checks of the recipient and the call
\* of getMXs, which issues the MX query (resolveMx throws at once when the name is
\* undefined, and the catch block of getMXs handles that like any error)
Validate ==
    /\ UNCHANGED classifierVars
    /\ pc = "start"
    /\ UNCHANGED <<fn, to_parsed, mxReply, addrReply, implicitAt>>
    /\ LET dp == to_parsed.domainPart
       IN  IF fn = "sendMessage" /\ "AddressLiteral" \in DOMAIN dp
           THEN Ended(Thrown(AddressLiteralError), conns, idx, dnsLog) /\ UNCHANGED mxRecords
           ELSE IF fn = "sendMessage" /\ NotFullyQualified(dp.DomainName)
           THEN Ended(Thrown(NotFqdnError), conns, idx, dnsLog) /\ UNCHANGED mxRecords
           ELSE IF fn # "sendMessage" /\ "AddressLiteral" \in DOMAIN to_parsed
           THEN Ended(Thrown(AddressLiteralError), conns, idx, dnsLog) /\ UNCHANGED mxRecords
           ELSE IF "DomainName" \notin DOMAIN dp
           THEN AfterGetMXs(getMXs(fn, Rejected(InvalidArgError), <<>>), dnsLog)
           ELSE /\ pc' = "mx"
                /\ dnsLog' = Append(dnsLog, Query("MX", dp.DomainName))
                /\ UNCHANGED <<mxRecords, idx, conns, outcome>>

\* resolveMx answers: the rest of getMXs, which returns, throws or starts the race
\* of resolve4 and resolve6, and then the rest of the entry point up to its next await
ResolveMxReply ==
    /\ UNCHANGED classifierVars
    /\ pc = "mx"
    /\ \E reply \in MxReplies :
         \E rnd \in RandomValues(IF reply.ok THEN Len(reply.value) ELSE 0) :
            LET r == getMXs(fn, reply, rnd)
                domain == to_parsed.domainPart.DomainName
            IN  /\ mxReply' = reply
                /\ IF ZeroMx(reply)
                   THEN addrReply' \in AddrReplies \X AddrReplies
                   ELSE addrReply' = <<>>
                /\ IF r.kind = "await"
                   THEN /\ pc' = "addr"
                        /\ implicitAt' = r.at
                        /\ dnsLog' = dnsLog \o <<Query("A", domain), Query("AAAA", domain)>>
                        /\ UNCHANGED <<mxRecords, idx, conns, outcome>>
                   ELSE AfterGetMXs(r, dnsLog) /\ UNCHANGED implicitAt
    /\ UNCHANGED <<fn, to_parsed>>

\* Promise.any of resolve4 and resolve6 settles: the rest of getMXs and of the entry
\* point up to its next await
AddrLookupReply ==
    /\ UNCHANGED classifierVars
    /\ pc = "addr"
    /\ LET domain == to_parsed.domainPart.DomainName
           r == getMXs_addr(fn, domain, PromiseAny(addrReply[1], addrReply[2]), implicitAt)
       IN  IF r.kind = "await"
           THEN /\ pc' = "addr"
                /\ implicitAt' = r.at
                /\ dnsLog' = dnsLog \o <<Query("A", domain), Query("AAAA", domain)>>
                /\ UNCHANGED <<mxRecords, idx, conns, outcome>>
           ELSE AfterGetMXs(r, dnsLog) /\ UNCHANGED implicitAt
    /\ UNCHANGED <<fn, to_parsed, mxReply, addrReply>>

\* sendOutgoingEmail: resolve4(host) answers; a failure is caught like a failed attempt
HostLookupReply ==
    /\ UNCHANGED classifierVars
    /\ pc = "host"
    /\ \E r \in AddrReplies :
         IF r.ok
         THEN /\ conns' = [conns EXCEPT ![idx] = wrapErrorEvent(@)]
              /\ pc' = "attempt"
              /\ UNCHANGED <<idx, outcome, dnsLog>>
         ELSE OnRejected([conns EXCEPT ![idx].op = "unresolvable"], idx)
    /\ UNCHANGED <<fn, to_parsed, mxReply, addrReply, implicitAt, mxRecords>>

\* the promise of wrapErrorEvent of the i-th connection is rejected: nothing happens
\* when it is settled already, else the await in the entry point throws
Reject(cs, i) ==
    IF cs[i].promise = "pending"
    THEN OnRejected([cs EXCEPT ![i].promise = "rejected"], i)
    ELSE conns' = cs /\ UNCHANGED <<pc, outcome, idx, dnsLog>>

\* Resolve as it would be if a settled promise could still be resolved
Resolve_settled(cs, i) ==
    OnResolved([cs EXCEPT ![i].promise = "resolved"], i)

\* the promise of wrapErrorEvent of the i-th connection is resolved: nothing happens
\* when it is settled already, else the await in the entry point returns
Resolve(cs, i) ==
    IF cs[i].promise = "pending"
    THEN OnResolved([cs EXCEPT ![i].promise = "resolved"], i)
    ELSE conns' = cs /\ UNCHANGED <<pc, outcome, idx, dnsLog>>

\* the callback of connect() of some connection: on success other() goes on to
\* send(), on failure other() rejects
ConnectCallback ==
    /\ UNCHANGED classifierVars
    /\ \E i \in 1..Len(conns), ok \in BOOLEAN :
         /\ conns[i].op = "connecting"
         /\ IF ok
            THEN /\ conns' = [conns EXCEPT ![i].op = "sending"]
                 /\ UNCHANGED <<pc, outcome, idx, dnsLog>>
            ELSE Reject([conns EXCEPT ![i].op = "finished"], i)
    /\ UNCHANGED <<fn, to_parsed, mxReply, addrReply, implicitAt, mxRecords>>

\* the callback of send() of some connection: other() returns the result or rejects
SendCallback ==
    /\ UNCHANGED classifierVars
    /\ \E i \in 1..Len(conns), ok \in BOOLEAN :
         /\ conns[i].op = "sending"
         /\ IF ok
            THEN Resolve([conns EXCEPT ![i].op = "finished", ![i].sent = TRUE], i)
            ELSE Reject([conns EXCEPT ![i].op = "finished"], i)
    /\ UNCHANGED <<fn, to_parsed, mxReply, addrReply, implicitAt, mxRecords>>

\* a connection emits "error" while the promise of wrapErrorEvent is pending: the
\* listener rejects it; connect() or send() stays in flight
ErrorEvent ==
    /\ UNCHANGED classifierVars
    /\ \E i \in 1..Len(conns) :
         /\ conns[i].promise = "pending"
         /\ Reject([conns EXCEPT ![i].captured = TRUE], i)
    /\ UNCHANGED <<fn, to_parsed, mxReply, addrReply, implicitAt, mxRecords>>

Next ==
    \/ Validate
    \/ ResolveMxReply
    \/ AddrLookupReply
    \/ HostLookupReply
    \/ ConnectCallback
    \/ SendCallback
    \/ ErrorEvent

Spec == Init /\ [][Next]_vars

----------------------------------------------------------------------------
(* Calls of the address classifier: one function applied to one text. *)

ClassifierInit ==
    /\ fn = "none"
    /\ to_parsed = [domainPart |-> [DomainName |-> FqdnDomain]]
    /\ pc = "idle"
    /\ dnsLog = <<>>
    /\ mxReply = NoReply
    /\ addrReply = <<>>
    /\ implicitAt = "none"
    /\ mxRecords = NotResolved
    /\ idx = 0
    /\ conns = <<>>
    /\ outcome = Pending
    /\ input \in ClassifierInputs
    /\ called = "none"
    /\ result = NotResolved

Call_addressFromLiteral ==
    /\ called = "none"
    /\ called' = "addressFromLiteral"
    /\ result' = addressFromLiteral(input)
    /\ UNCHANGED <<input, deliveryVars>>

Call_isLoopback ==
    /\ called = "none"
    /\ called' = "isLoopback"
    /\ result' = isLoopback(input)
    /\ UNCHANGED <<input, deliveryVars>>

Call_isPrivate ==
    /\ called = "none"
    /\ called' = "isPrivate"
    /\ result' = isPrivate(input)
    /\ UNCHANGED <<input, deliveryVars>>

ClassifierNext ==
    \/ Call_addressFromLiteral
    \/ Call_isLoopback
    \/ Call_isPrivate

ClassifierSpec == ClassifierInit /\ [][ClassifierNext]_vars

----------------------------------------------------------------------------
(* What the properties below speak of. *)

\* the route the resolver returned (empty while there is none)
Route == IF mxRecords.kind = "return" THEN mxRecords.value ELSE <<>>

\* the attempt to the host of connection c failed: its wrapErrorEvent promise was
\* rejected (connect failed, send failed or an error event), or, in
\* sendOutgoingEmail, the host did not resolve
AttemptFailed(c) == c.promise = "rejected" \/ c.op = "unresolvable"

\* the attempt to the host of connection c succeeded
AttemptSucceeded(c) == c.promise = "resolved"

\* the recipient's domain name, when it has one
HasDomainName == "DomainName" \in DOMAIN to_parsed.domainPart

\* C1: failover. When the attempts to the first k hosts of the route fail and the
\* attempt to host k+1 succeeds, the call returns success with that host as the
\* accepting host; and a failed attempt to a host that is not the last of the route
\* only advances the loop: the next host's connection exists as soon as the failure
\* is handled, the failure is never the outcome of the call.
C1_FailoverToNextHost ==
    \A i \in 1..Len(conns) :
        /\ (AttemptSucceeded(conns[i]) /\ \A j \in 1..(i - 1) : AttemptFailed(conns[j]))
              => outcome = Returned([host |-> Route[i].exchange])
        /\ (AttemptFailed(conns[i]) /\ i < Len(Route))
              => (Len(conns) > i /\ conns[i + 1].host = Route[i + 1].exchange)

\* C2: exhaustion. A call that entered the host loop and ended in failure has
\* attempted every host of the route exactly once and in the order of the route
\* (which is non-decreasing in priority): the connections it made are, in order, one
\* per record of the route, and every attempt failed.
C2_AllHostsAttemptedInOrder ==
    (pc = "done" /\ outcome.status = "thrown" /\ Len(conns) > 0)
        => /\ Len(conns) = Len(Route)
           /\ \A i \in 1..Len(conns) :
                 conns[i].host = Route[i].exchange /\ AttemptFailed(conns[i])
           /\ \A i \in 1..(Len(Route) - 1) : Route[i].priority <= Route[i + 1].priority

\* C3: every connection the call made is quit exactly once by the time the call
\* returns or throws, and never more than once; a connection whose attempt is over
\* (resolved, rejected by a failed connect, a failed send or an error event, or
\* abandoned because its host did not resolve) has been quit already.
C3_EverySessionClosedOnce ==
    \A i \in 1..Len(conns) :
        /\ conns[i].quits <= 1
        /\ (AttemptSucceeded(conns[i]) \/ AttemptFailed(conns[i])) => conns[i].quits = 1
        /\ pc = "done" => conns[i].quits = 1

\* C3 witness: a call that returned success on its second host after the first
\* attempt was rejected while its connect or send was still in flight (an error
\* event), both connections quit.
C3_Witness ==
    /\ pc = "done"
    /\ outcome.status = "returned"
    /\ Len(conns) = 2
    /\ conns[1].promise = "rejected"
    /\ conns[1].op \in {"connecting", "sending"}
    /\ conns[2].promise = "resolved"
    /\ conns[1].quits = 1 /\ conns[2].quits = 1

\* C4: the first success ends the loop. A successful attempt is the last connection
\* ever made: it is the last one when it succeeds, the call has returned its host,
\* and from then on no connection is added and no connect or send is started.
C4_FirstSuccessEndsLoop ==
    /\ [](\A i \in 1..Len(conns) :
            AttemptSucceeded(conns[i])
                => /\ i = Len(conns)
                   /\ pc = "done"
                   /\ outcome = Returned([host |-> Route[i].exchange]))
    /\ [][(\E i \in 1..Len(conns) : AttemptSucceeded(conns[i]))
            => /\ Len(conns') = Len(conns)
               /\ \A j \in 1..Len(conns) :
                     conns'[j].op \in {"connecting", "sending"}
                         => conns[j].op \in {"connecting", "sending"}]_vars

\* C4 witness: the call returned the first host of a route of two records.
C4_Witness ==
    /\ pc = "done"
    /\ outcome.status = "returned"
    /\ Len(Route) = 2
    /\ Len(conns) = 1
    /\ AttemptSucceeded(conns[1])

\* C5: every failure the call ends with carries a response text that is not empty
\* and a numeric response code; when the call fails because every host of the route
\* was tried without success, the code is 500.
C5_FailureCarriesResponse ==
    outcome.status = "thrown"
        => /\ "response" \in DOMAIN outcome.error
           /\ outcome.error.response # ""
           /\ "responseCode" \in DOMAIN outcome.error
           /\ outcome.error.responseCode \in Int
           /\ (Len(conns) > 0 /\ Len(conns) = Len(Route)) => outcome.error.responseCode = 500

\* the answer of an MX lookup that holds the null MX record alone
NullMxReply == Fulfilled(<<[priority |-> 0, exchange |-> EmptyName]>>)

\* C6: when the MX lookup answers exactly one record of priority 0 with an empty
\* exchange, the call fails with the "Null MX" failure and code 500, no connection
\* is constructed and no host is looked up or connected to.
C6_NullMxRejected ==
    mxReply = NullMxReply
        => /\ pc = "done"
           /\ outcome.status = "thrown"
           /\ outcome.error.response = "Null MX"
           /\ outcome.error.responseCode = 500
           /\ conns = <<>>
           /\ \A q \in 1..Len(dnsLog) : dnsLog[q].type = "MX"

\* C6 witness: a call of sendMessage whose MX lookup answered the null MX record has
\* ended.
C6_Witness ==
    /\ fn = "sendMessage"
    /\ mxReply = NullMxReply
    /\ pc = "done"
    /\ outcome = Thrown(NullMxError)

\* both address lookups failed with "no data" or "no such domain"
BothNoData == addrReply # <<>> /\ \A k \in 1..2 : ~addrReply[k].ok /\ NoData(addrReply[k].error)

\* at least one address lookup succeeds
SomeAddress == addrReply # <<>> /\ \E k \in 1..2 : addrReply[k].ok

\* getMXs is over: it returned (with or without a value) or threw
GetMXsOver == mxRecords # NotResolved

\* C7: for a domain with no MX record whose IPv4 and IPv6 lookups both fail with
\* "no data" or "no such domain", the resolver returns the empty route and does not
\* throw, and the call fails with the "No MX or A or AAAA" failure, code 500.
C7_NoRouteFailure ==
    (ZeroMx(mxReply) /\ BothNoData /\ GetMXsOver)
        => /\ mxRecords = Return(<<>>)
           /\ outcome.status = "thrown"
           /\ outcome.error = NoMxError
           /\ outcome.error.responseCode = 500

\* C8: for a domain with no MX record (an empty answer, or "no data" / "no such
\* domain") of which at least one address lookup succeeds, the route the resolver
\* returns is exactly the one record of priority 0 whose exchange is the domain.
C8_ImplicitMx ==
    (ZeroMx(mxReply) /\ SomeAddress /\ GetMXsOver)
        => mxRecords = Return(ImplicitRoute(to_parsed.domainPart.DomainName))

\* how often record r occurs in the sequence s
Occurrences(s, r) == Cardinality({i \in 1..Len(s) : s[i] = r})

\* C9: when the MX lookup answers at least one record, the resolver returns a route
\* that holds the same records as the answer, each as often as the answer does, in
\* non-decreasing order of priority.
C9_RouteSortedPermutation ==
    (mxReply.ok /\ Len(mxReply.value) >= 1)
        => /\ mxRecords.kind = "return"
           /\ Len(mxRecords.value) = Len(mxReply.value)
           /\ \A r \in MXRecords : Occurrences(mxRecords.value, r) = Occurrences(mxReply.value, r)
           /\ \A i \in 1..(Len(mxRecords.value) - 1) :
                 mxRecords.value[i].priority <= mxRecords.value[i + 1].priority

\* C9 witness: an answer of two records with the larger priority first was resolved
\* into a route that starts with the smaller priority.
C9_Witness ==
    /\ mxReply.ok
    /\ Len(mxReply.value) = 2
    /\ mxReply.value[1].priority > mxReply.value[2].priority
    /\ mxRecords.kind = "return"
    /\ mxRecords.value = <<mxReply.value[2], mxReply.value[1]>>

\* C10: a recipient whose domain name has fewer than two labels is rejected with the
\* "Domain not fully qualified" failure, code 500, before any DNS query is issued and
\* before any connection is constructed.
C10_NotFqdnRejectedFirst ==
    (HasDomainName /\ NotFullyQualified(to_parsed.domainPart.DomainName) /\ pc # "start")
        => /\ pc = "done"
           /\ outcome = Thrown(NotFqdnError)
           /\ outcome.error.responseCode = 500
           /\ dnsLog = <<>>
           /\ conns = <<>>

\* the recipient's domain part is an address literal
HasAddressLiteral == "AddressLiteral" \in DOMAIN to_parsed.domainPart

\* C11: a recipient whose domain part is an address literal is rejected with the
\* "Domain is an address literal" failure, code 500, and no MX query is issued and no
\* connection is constructed.
C11_AddressLiteralRejected ==
    (HasAddressLiteral /\ pc # "start")
        => /\ pc = "done"
           /\ outcome.status = "thrown"
           /\ "responseCode" \in DOMAIN outcome.error
           /\ outcome.error.responseCode = 500
           /\ outcome.error.response = "Domain is an address literal"
           /\ dnsLog = <<>>
           /\ conns = <<>>

\* the MX lookup failed with the code c
MxFailedWith(c) == ~mxReply.ok /\ "code" \in DOMAIN mxReply.error /\ mxReply.error.code = c

\* C12: when the MX lookup fails with a timeout, the resolver returns the empty route
\* and throws nothing, and the call ends with the "No MX or A or AAAA" failure.
C12_MxTimeoutIsNoRoute ==
    MxFailedWith("ETIMEOUT")
        => /\ mxRecords = Return(<<>>)
           /\ outcome = Thrown(NoMxError)

\* the MX lookup failed with a code that is neither "no data", "no such domain" nor
\* timeout
MxFailedFatally ==
    \E c \in DnsCodes \ {"ENODATA", "ENOTFOUND", "ETIMEOUT"} : MxFailedWith(c)

\* C13: when the MX lookup fails with an error that is neither "no data" / "no such
\* domain" nor timeout, the resolver throws that error, the call ends with it, no
\* address lookup is issued and no connection is constructed.
C13_FatalDnsErrorPropagates ==
    MxFailedFatally
        => /\ mxRecords = Throw(mxReply.error)
           /\ pc = "done"
           /\ outcome = Thrown(mxReply.error)
           /\ \A q \in 1..Len(dnsLog) : dnsLog[q].type = "MX"
           /\ conns = <<>>

\* C13 witness: a call of sendMessage whose MX lookup failed with ESERVFAIL has ended
\* with that error.
C13_Witness ==
    /\ fn = "sendMessage"
    /\ MxFailedWith("ESERVFAIL")
    /\ pc = "done"
    /\ outcome = Thrown(mxReply.error)

----------------------------------------------------------------------------
(* The address classifier: properties of ClassifierSpec. *)

\* the numeric value of group i of a dotted quad
Octet(addr, i) == DecVal(Split(addr, ".")[i])

\* C14: isPrivate answers true on an IPv4 address exactly when its first octet is 10,
\* or its first octet is 172 and its second is in 16..31, or its first two octets are
\* 192.168; on an IPv6 address exactly when the text begins with "fd" in any case;
\* on any other text it throws
C14_IsPrivateClassifies ==
    called = "isPrivate" =>
        IF IsIpV4(input)
        THEN result = Return(\/ Octet(input, 1) = 10
                             \/ Octet(input, 1) = 172 /\ Octet(input, 2) \in 16..31
                             \/ Octet(input, 1) = 192 /\ Octet(input, 2) = 168)
        ELSE IF IsIpV6(input)
        THEN result = Return(/\ Len(input) >= 2
                             /\ input[1] \in {"f", "F"}
                             /\ input[2] \in {"d", "D"})
        ELSE result.kind = "throw"

\* isPrivate was called with 172.31.0.1 and answered true
C14_Witness ==
    /\ called = "isPrivate"
    /\ input = <<"1", "7", "2", ".", "3", "1", ".", "0", ".", "1">>
    /\ result = Return(TRUE)

\* a group of hex digits whose value is n, for n = 0 or n = 1
GroupIs(g, n) ==
    /\ g # <<>>
    /\ \A j \in 1..(Len(g) - 1) : g[j] = "0"
    /\ g[Len(g)] = (IF n = 0 THEN "0" ELSE "1")

\* the IPv6 address addr is 0:0:0:0:0:0:0:1, however it is written
IsIpV6LoopbackAddress(addr) ==
    LET parts == Split(addr, ":")
        n     == Len(parts)
    IN  /\ IsIpV6(addr)
        /\ GroupIs(parts[n], 1)
        /\ \A i \in 1..(n - 1) : parts[i] = <<>> \/ GroupIs(parts[i], 0)

\* C15: isLoopback answers true on an IPv4 address exactly when its first octet is
\* 127, on an IPv6 address exactly when it is the loopback address, and throws
\* "is not an IP address" on any other text
C15_IsLoopbackClassifies ==
    called = "isLoopback" =>
        IF IsIpV4(input) THEN result = Return(Octet(input, 1) = 127)
        ELSE IF IsIpV6(input) THEN result = Return(IsIpV6LoopbackAddress(input))
        ELSE result = Throw(NotAnIpAddressError)

\* the text is "[", then text without "]", then "]" and nothing else
Bracketed(s) == Len(s) >= 2 /\ s[1] = "[" /\ FirstClose(s, 1) = Len(s)

\* the text between the brackets of a bracketed text
Inner(s) == SubSeq(s, 2, Len(s) - 1)

\* C16: addressFromLiteral returns the text between the brackets of [IPv6:<addr>]
\* (without the tag) and of [<addr>], and throws on every text that is not one
\* bracketed text, text before "[" or after "]" included.  A tag written in another
\* case may be stripped or kept
C16_AddressFromLiteralShapes ==
    called = "addressFromLiteral" =>
        IF ~Bracketed(input) THEN result.kind = "throw"
        ELSE IF startsWith(Inner(input), <<"I", "P", "v", "6", ":">>)
        THEN result = Return(SubSeq(Inner(input), 6, Len(Inner(input))))
        ELSE IF startsWith(toLowerCase(Inner(input)), Ipv6Tag)
        THEN result \in {Return(Inner(input)), Return(SubSeq(Inner(input), 6, Len(Inner(input))))}
        ELSE result = Return(Inner(input))

----------------------------------------------------------------------------
(* The address fallback and the attempts: properties of Spec. *)

\* the address fallback ran and getMXs is over
FallbackOver == implicitAt # "none" /\ GetMXsOver

\* both address lookups failed
BothFailed == addrReply # <<>> /\ \A k \in 1..2 : ~addrReply[k].ok

\* C17: when the address fallback ran and both address lookups failed, at least one
\* of them with an error other than "no data" / "no such domain", the resolver throws
\* and does not return the empty route; it returns the empty route from the fallback
\* only when both failed with "no data" or "no such domain".
C17_FallbackFatalPropagates ==
    FallbackOver =>
        /\ (BothFailed /\ ~BothNoData) => mxRecords.kind = "throw"
        /\ mxRecords = Return(<<>>) => BothNoData

\* the operations of connection c (connect, send) are in flight
InFlight(c) == c.op \in {"connecting", "sending"}

\* C18: an attempt whose connection emitted an error event while its connect or send
\* was in flight is a failed attempt, handled like any other failed attempt (its
\* promise is rejected, its connection is quit), and the call never returns success
\* for that attempt, not even when the connect and the send complete successfully
\* afterwards.
C18_ErrorEventFailsAttempt ==
    \A i \in 1..Len(conns) :
        conns[i].captured
            => /\ AttemptFailed(conns[i])
               /\ ~AttemptSucceeded(conns[i])
               /\ conns[i].quits = 1
               /\ ~(outcome.status = "returned" /\ idx = i)

\* C18 witness: the connection of the first host emitted an error event during its
\* attempt, and its send completed successfully afterwards.
C18_Witness ==
    /\ Len(conns) >= 1
    /\ conns[1].captured
    /\ conns[1].sent
    /\ conns[1].op = "finished"
    /\ conns[1].promise = "rejected"

\* C19: attempts never overlap. At every moment at most one connection of the call
\* has a connect or send in flight, also after an attempt was ended by an error event.
C19_AttemptsNeverOverlap ==
    Cardinality({i \in 1..Len(conns) : InFlight(conns[i])}) <= 1

\* C20: at most one host accepts the message. The connections of one call whose send
\* completed successfully are connections to one and the same host.
C20_AtMostOneHostAccepts ==
    Cardinality({conns[i].host : i \in {j \in 1..Len(conns) : conns[j].sent}}) <= 1

====
